---- MODULE Spec2Model ----
(***************************************************************************)
(* Model of the MCP agent client (mcp-client/agent_client.py): the         *)
(* DeepSeekLLM adapter, MCPAgentClient.chat_loop with its two backend      *)
(* branches, and main.  The LLM provider, the MCP tool session and the     *)
(* console are the environment: their answers are drawn from small sets.   *)
(***************************************************************************)
EXTENDS Integers, Sequences, FiniteSets, TLC

VARIABLES
    backend,    \* MCPAgentClient.llm_backend
    hasKey,     \* the credential of the chosen backend is in the environment
    pc,         \* position of the control flow in main / chat_loop
    selfTools,  \* MCPAgentClient.tools: the tools the session listed
    tools,      \* chat_loop's local `tools` (built once by _make_tools)
    messages,   \* chat_loop's local `messages`: the conversation log
    batch,      \* the tool calls the for loop iterates over
    idx,        \* position of the for loop in batch (1-based)
    cur,        \* tool_name, tool_args, tool_call_id, tool_call of the iteration
    raised,     \* the exception travelling to the outer except ("" when none)
    nQueries,   \* queries read so far (not counting the sentinel)
    lastLine,   \* the line the latest input() returned
    qstart,     \* index in messages of the user turn of the current query
    nLLM,       \* completion calls issued for the current query
    sent,       \* arguments of the latest completion call of the current query
    called,     \* ids of the requests handed to session.call_tool, this query
    session,    \* the MCP session held by exit_stack: "none", "open", "closed"
    payload,    \* normalizer check: the result.content under test
    normalized  \* normalizer check: the outcome of the normalization

vars == <<backend, hasKey, pc, selfTools, tools, messages, batch, idx, cur, raised,
          nQueries, lastLine, qstart, nLLM, sent, called, session,
          payload, normalized>>

(***************************************************************************)
(* Bounds of the model.                                                    *)
(***************************************************************************)
MaxQueries == 2
MaxBatch == 2
MaxItems == 3

(***************************************************************************)
(* Python values.                                                          *)
(***************************************************************************)
\* Python's None, where the code stores or reads it in place of a str.
None == "None"

NoCall == [kind |-> "none"]
NoCur == [tool_call_id |-> ""]

(***************************************************************************)
(* Console input: str.strip() and str.lower() on lines of characters.      *)
(***************************************************************************)
IsSpace(c) == c \in {" ", "\t"}

RECURSIVE LStrip(_)
LStrip(s) == IF s # <<>> /\ IsSpace(Head(s)) THEN LStrip(Tail(s)) ELSE s

RECURSIVE RStrip(_)
RStrip(s) ==
    IF s # <<>> /\ IsSpace(s[Len(s)]) THEN RStrip(SubSeq(s, 1, Len(s) - 1)) ELSE s

Strip(s) == RStrip(LStrip(s))

LowerChar(c) ==
    CASE c = "Q" -> "q"
      [] c = "U" -> "u"
      [] c = "I" -> "i"
      [] c = "T" -> "t"
      [] c = "H" -> "h"
      [] OTHER -> c

Lower(s) == [i \in 1..Len(s) |-> LowerChar(s[i])]

RECURSIVE Str(_)
Str(s) == IF s = <<>> THEN "" ELSE Head(s) \o Str(Tail(s))

\* The lines the console can deliver.
InputLines ==
    { <<"q", "u", "i", "t">>,
      <<" ", "Q", "u", "I", "T", "\t">>,
      <<" ", "h", "i", " ">> }

\* chat_loop: query.lower() == 'quit'
IsSentinel(query) == Lower(query) = <<"q", "u", "i", "t">>

(***************************************************************************)
(* Turns of the conversation log, as the dicts the code appends.           *)
(***************************************************************************)
UserTurn(query) == [role |-> "user", content |-> query]

AssistantTurn(content) == [role |-> "assistant", content |-> content]

\* Mutant: the assistant turn repeats its tool call.
ToolCallTurnTwice(tool_call) ==
    [role |-> "assistant", content |-> None, tool_calls |-> <<tool_call, tool_call>>]

ToolCallTurn(tool_call) ==
    [role |-> "assistant", content |-> None, tool_calls |-> <<tool_call>>]

\* Mutant: the tool turn is keyed by a fixed id, not by the id of its request.
ToolTurnFixedId(tool_call_id, result_content) ==
    [role |-> "tool", tool_call_id |-> "call_0", content |-> result_content]

ToolTurn(tool_call_id, result_content) ==
    [role |-> "tool", tool_call_id |-> tool_call_id, content |-> result_content]

\* assistant_message.model_dump() of a message without tool calls (the keys
\* the log's readers use).
ModelDumpMessage(message) ==
    [role |-> "assistant", content |-> message.content, tool_calls |-> <<>>]

\* tool_call.model_dump()
ModelDump(tc) ==
    [id |-> tc.id, type |-> "function",
     function |-> [name |-> tc.function.name, arguments |-> tc.function.arguments]]

(***************************************************************************)
(* Tool catalog.                                                           *)
(***************************************************************************)
\* A schema value is None or a dict, a dict being the sequence of its
\* key/value pairs.
NoSchema == [isdict |-> FALSE, items |-> <<>>]
EmptyDict == [isdict |-> TRUE, items |-> <<>>]
CitySchema ==
    [isdict |-> TRUE,
     items |-> << <<"type", "object">>, <<"properties", "{city: string}">> >>]

Schemas == {NoSchema, EmptyDict, CitySchema}

\* {"type": "object", "properties": {}}
EmptySchema ==
    [isdict |-> TRUE, items |-> << <<"type", "object">>, <<"properties", "{}">> >>]

\* Python truth value of a schema: None and the empty dict are false.
Truthy(x) == x.isdict /\ x.items # <<>>

\* What session.list_tools() returned: one tool with a schema, one without.
RawTools ==
    << [name |-> "get_weather", description |-> "weather of a city",
        inputSchema |-> CitySchema],
       [name |-> "ping", description |-> "no parameters",
        inputSchema |-> NoSchema] >>

\* Mutant: the default schema is used for every tool.
MakeToolsAlwaysDefault(raw) ==
    [i \in 1..Len(raw) |->
        [type |-> "function",
         function |-> [name |-> raw[i].name,
                       description |-> raw[i].description,
                       parameters |-> EmptySchema]]]

MakeTools(raw) ==
    [i \in 1..Len(raw) |->
        [type |-> "function",
         function |-> [name |-> raw[i].name,
                       description |-> raw[i].description,
                       parameters |-> IF Truthy(raw[i].inputSchema)
                                      THEN raw[i].inputSchema
                                      ELSE EmptySchema]]]

(***************************************************************************)
(* The provider's answers.                                                 *)
(***************************************************************************)
GoodArgs == "{\"city\": \"Boston\"}"
BadArgs == "{\"city\": "
ArgStrings == {GoodArgs, BadArgs}

\* json.loads on the argument strings of the model.
JsonLoads(s) ==
    IF s = GoodArgs THEN [ok |-> TRUE, value |-> [city |-> "Boston"]]
    ELSE [ok |-> FALSE, value |-> [city |-> ""]]

IdOf(q, k) == "call_" \o ToString(q) \o "_" \o ToString(k)

\* One tool-call entry of a provider message, in one of the wire shapes:
\* an SDK object, a dict of the same nesting, a flat dict.
WireEntry(shape, id, args) ==
    IF shape = "flat"
    THEN [isdict |-> TRUE,
          val |-> [id |-> id, name |-> "get_weather", arguments |-> args]]
    ELSE [isdict |-> (shape = "dict"),
          val |-> [id |-> id, type |-> "function",
                   function |-> [name |-> "get_weather", arguments |-> args]]]

Shapes(b) == IF b = "deepseek" THEN {"object", "dict", "flat"} ELSE {"object"}

ArgSeqs(n) == [1..n -> ArgStrings]

WireBatches(b, q) ==
    { [k \in 1..Len(a) |-> WireEntry(sh, IdOf(q, k), a[k])] :
        sh \in Shapes(b), a \in UNION { ArgSeqs(n) : n \in 0..MaxBatch } }

AnswerText == "It is sunny."
Contents == {None, AnswerText}

\* Outcomes of the first completion call of query q on backend b.
ProviderFirst(b, q) ==
    { [ok |-> FALSE, content |-> None, tool_calls |-> <<>>] }
    \cup
    { [ok |-> TRUE, content |-> c, tool_calls |-> w] :
        c \in Contents, w \in WireBatches(b, q) }

\* Outcomes of a follow-up completion call.
ProviderFollowUp(b) ==
    { [ok |-> FALSE, content |-> None, tool_calls |-> <<>>] }
    \cup
    { [ok |-> TRUE, content |-> c, tool_calls |-> w] :
        c \in Contents,
        w \in { <<>>, <<WireEntry("object", "call_f", GoodArgs)>> } }

ApiErrorText == "DeepSeek API error: connection failed"

\* DeepSeekLLM.chat: the provider outcome to the dict the loop reads.
DeepSeekChat(raw) ==
    IF ~raw.ok
    THEN [role |-> "assistant", content |-> ApiErrorText]
    ELSE LET result == [role |-> "assistant", content |-> raw.content]
             tool_calls_dicts ==
                 [i \in 1..Len(raw.tool_calls) |->
                     LET tc == raw.tool_calls[i] IN
                     IF tc.isdict THEN tc
                     ELSE [isdict |-> TRUE, val |-> ModelDump(tc.val)]]
         IN  IF raw.tool_calls # <<>>
             THEN result @@ [tool_calls |-> tool_calls_dicts]
             ELSE result

(***************************************************************************)
(* Tool results and their normalization to a str.                          *)
(***************************************************************************)
TextItem(t) == [hasText |-> TRUE, text |-> t]
ImageItem == [hasText |-> FALSE, text |-> ""]

RECURSIVE JoinLines(_)
JoinLines(items) ==
    IF items = <<>> THEN ""
    ELSE IF Len(items) = 1 THEN items[1].text
    ELSE items[1].text \o "\n" \o JoinLines(Tail(items))

\* Mutant: a list is joined as soon as its first item has a text field.
NormalizeResultFirstItem(p) ==
    IF p.kind = "str" THEN p.val
    ELSE IF p.kind = "item" /\ p.val.hasText THEN p.val.text
    ELSE IF p.kind = "list" /\ p.val # <<>> /\ p.val[1].hasText
         THEN JoinLines(p.val)
    ELSE IF p.dumps THEN p.json
    ELSE p.str

\* result.content -> str, lines 180-194 (and the same code at 240-254).
\* kind: "str" a str; "item" one content object; "list" a list of content
\* objects; "data" any other value, with its json.dumps text when it has one
\* and its str() text.
NormalizeResult(p) ==
    IF p.kind = "str" THEN p.val
    ELSE IF p.kind = "item" /\ p.val.hasText THEN p.val.text
    ELSE IF p.kind = "list" /\ \A i \in 1..Len(p.val) : p.val[i].hasText
         THEN JoinLines(p.val)
    ELSE IF p.dumps THEN p.json
    ELSE p.str

ItemRepr(it) == IF it.hasText THEN "TextContent(" \o it.text \o ")" ELSE "ImageContent()"

RECURSIVE ListRepr(_)
ListRepr(items) ==
    IF items = <<>> THEN ""
    ELSE IF Len(items) = 1 THEN ItemRepr(items[1])
    ELSE ItemRepr(items[1]) \o ", " \o ListRepr(Tail(items))

StrPayload(t) == [kind |-> "str", val |-> t, dumps |-> TRUE, json |-> "", str |-> t]
ItemPayload(it) ==
    [kind |-> "item", val |-> it, dumps |-> FALSE, json |-> "", str |-> ItemRepr(it)]
ListPayload(items) ==
    [kind |-> "list", val |-> items, dumps |-> (items = <<>>),
     json |-> "[]", str |-> "[" \o ListRepr(items) \o "]"]
DataPayload(dumps, json, str) ==
    [kind |-> "data", val |-> str, dumps |-> dumps, json |-> json, str |-> str]

\* What session.call_tool returns in the loop's runs.
SessionPayloads ==
    { StrPayload("62F, sunny"),
      ListPayload(<<TextItem("62F, sunny")>>) }

(***************************************************************************)
(* Initial state: main() before MCPAgentClient is constructed.             *)
(***************************************************************************)
Init ==
    /\ backend \in {"deepseek", "openai", "other"}
    /\ hasKey \in BOOLEAN
    /\ pc = "main"
    /\ selfTools = <<>>
    /\ tools = <<>>
    /\ messages = <<>>
    /\ batch = <<>>
    /\ idx = 0
    /\ cur = NoCur
    /\ raised = ""
    /\ nQueries = 0
    /\ lastLine = <<>>
    /\ qstart = 0
    /\ nLLM = 0
    /\ sent = NoCall
    /\ called = <<>>
    /\ session = "none"
    /\ payload = StrPayload("")
    /\ normalized = ""

(***************************************************************************)
(* main: construction, connection, teardown.                               *)
(***************************************************************************)
\* MCPAgentClient(llm_backend=backend): _init_llm raises RuntimeError when
\* the deepseek key is absent; main has not entered its try block yet.
Construct ==
    /\ pc = "main"
    /\ pc' = IF backend = "deepseek" /\ ~hasKey THEN "fatal" ELSE "connect"
    /\ UNCHANGED <<backend, hasKey, selfTools, tools, messages, batch, idx, cur, raised,
                   nQueries, lastLine, qstart, nLLM, sent, called, session,
                   payload, normalized>>

\* connect_to_server: the session is opened and its tools are listed; or an
\* exception leaves main's try block through its finally clause, raised
\* before the exit stack holds anything ("early": the suffix check, the
\* spawn) or after it holds the session ("late": initialize, list_tools).
ConnectToServer ==
    /\ pc = "connect"
    /\ \E outcome \in {"ok", "early", "late"} :
          /\ session' = IF outcome = "early" THEN "none" ELSE "open"
          /\ selfTools' = IF outcome = "ok" THEN RawTools ELSE selfTools
          /\ pc' = IF outcome = "ok" THEN "chat_loop" ELSE "cleanup"
          /\ raised' = IF outcome = "ok" THEN "" ELSE "ConnectError"
    /\ UNCHANGED <<backend, hasKey, tools, messages, batch, idx, cur,
                   nQueries, lastLine, qstart, nLLM, sent, called, payload, normalized>>

\* chat_loop up to `messages = []`: OpenAI() raises without a credential.
ChatLoopStart ==
    /\ pc = "chat_loop"
    /\ tools' = MakeTools(selfTools)
    /\ messages' = <<>>
    /\ pc' = IF backend = "openai" /\ ~hasKey THEN "cleanup" ELSE "input"
    /\ raised' = IF backend = "openai" /\ ~hasKey THEN "OpenAIError" ELSE ""
    /\ UNCHANGED <<backend, hasKey, selfTools, batch, idx, cur, nQueries, lastLine, qstart, nLLM,
                   sent, called, session, payload, normalized>>

\* Mutant: main ends without closing the exit stack.
CleanupLeaks ==
    /\ pc = "cleanup"
    /\ pc' = "exit"
    /\ UNCHANGED <<backend, hasKey, selfTools, tools, messages, batch, idx, cur, raised,
                   nQueries, lastLine, qstart, nLLM, sent, called, session,
                   payload, normalized>>

\* main's finally: client.cleanup() closes the exit stack.
Cleanup ==
    /\ pc = "cleanup"
    /\ session' = IF session = "open" THEN "closed" ELSE session
    /\ pc' = "exit"
    /\ UNCHANGED <<backend, hasKey, selfTools, tools, messages, batch, idx, cur, raised,
                   nQueries, lastLine, qstart, nLLM, sent, called, payload, normalized>>

(***************************************************************************)
(* chat_loop: one iteration of `while True`.                               *)
(***************************************************************************)
\* input().strip(), the sentinel test, the append of the user turn; with no
\* usable backend the iteration ends at once with a printed error.
ReadQuery ==
    /\ pc = "input"
    /\ \E line \in InputLines :
          LET query == Strip(line) IN
          /\ lastLine' = line
          /\ IF IsSentinel(query)
             THEN /\ pc' = "cleanup"
                  /\ UNCHANGED <<messages, nQueries, qstart>>
             ELSE /\ nQueries < MaxQueries
                  /\ messages' = Append(messages, UserTurn(Str(query)))
                  /\ nQueries' = nQueries + 1
                  /\ qstart' = Len(messages) + 1
                  /\ pc' = IF backend \in {"deepseek", "openai"} THEN "call"
                           ELSE "done"
    /\ UNCHANGED <<backend, hasKey, selfTools, tools, batch, idx, cur, raised, nLLM, sent,
                   called, session, payload, normalized>>

\* deepseek: self.llm.chat, the print of the content, the branch on tool_calls.
FirstCallDeepSeek ==
    /\ pc = "call"
    /\ backend = "deepseek"
    /\ \E raw \in ProviderFirst(backend, nQueries) :
          LET response == DeepSeekChat(raw) IN
          /\ sent' = [kind |-> "initial", messages |-> messages, tools |-> tools,
                   ok |-> raw.ok, content |-> raw.content,
                   ntc |-> Len(raw.tool_calls)]
          /\ nLLM' = nLLM + 1
          /\ IF response.content = None
             THEN /\ pc' = "except"
                  /\ raised' = "TypeError"
                  /\ UNCHANGED <<messages, batch, idx>>
             ELSE IF "tool_calls" \in DOMAIN response
             THEN /\ batch' = response.tool_calls
                  /\ idx' = 1
                  /\ pc' = "dispatch"
                  /\ UNCHANGED <<messages, raised>>
             ELSE /\ messages' = Append(messages, AssistantTurn(response.content))
                  /\ pc' = "done"
                  /\ UNCHANGED <<batch, idx, raised>>
    /\ UNCHANGED <<backend, hasKey, selfTools, tools, cur, nQueries, lastLine, qstart, called,
                   session, payload, normalized>>

\* openai: chat.completions.create, the print, the branch on tool_calls.
FirstCallOpenAI ==
    /\ pc = "call"
    /\ backend = "openai"
    /\ \E raw \in ProviderFirst(backend, nQueries) :
          /\ sent' = [kind |-> "initial", messages |-> messages, tools |-> tools,
                   ok |-> raw.ok, content |-> raw.content,
                   ntc |-> Len(raw.tool_calls)]
          /\ nLLM' = nLLM + 1
          /\ IF ~raw.ok
             THEN /\ pc' = "except"
                  /\ raised' = "APIError"
                  /\ UNCHANGED <<messages, batch, idx>>
             ELSE IF raw.tool_calls # <<>>
             THEN /\ batch' = raw.tool_calls
                  /\ idx' = 1
                  /\ pc' = "dispatch"
                  /\ UNCHANGED <<messages, raised>>
             ELSE /\ messages' = Append(messages, ModelDumpMessage(raw))
                  /\ pc' = "done"
                  /\ UNCHANGED <<batch, idx, raised>>
    /\ UNCHANGED <<backend, hasKey, selfTools, tools, cur, nQueries, lastLine, qstart, called,
                   session, payload, normalized>>

\* The head of the for body: name, arguments and id of the tool call.
\* deepseek reads a dict by subscript and an object by attribute; openai
\* reads attributes.  [ok, err, name, args, id, tool_call]
ReadToolCall(b, tool_call) ==
    LET v == tool_call.val IN
    IF "function" \notin DOMAIN v
    THEN [ok |-> FALSE, err |-> "KeyError"]
    ELSE LET tool_args == JsonLoads(v.function.arguments) IN
         IF ~tool_args.ok
         THEN [ok |-> FALSE, err |-> "JSONDecodeError"]
         ELSE [ok |-> TRUE, err |-> "",
               tool_name |-> v.function.name,
               tool_args |-> tool_args.value,
               tool_call_id |-> v.id,
               tool_call |-> IF b = "deepseek" /\ tool_call.isdict THEN v
                             ELSE ModelDump(v)]

\* for tool_call in ...: read the call and hand it to session.call_tool.
StartToolCall ==
    /\ pc = "dispatch"
    /\ LET r == ReadToolCall(backend, batch[idx]) IN
       IF r.ok
       THEN /\ cur' = [tool_name |-> r.tool_name, tool_args |-> r.tool_args,
                       tool_call_id |-> r.tool_call_id, tool_call |-> r.tool_call]
            /\ called' = Append(called, r.tool_call_id)
            /\ pc' = "tool"
            /\ UNCHANGED raised
       ELSE /\ pc' = "except"
            /\ raised' = r.err
            /\ UNCHANGED <<cur, called>>
    /\ UNCHANGED <<backend, hasKey, selfTools, tools, messages, batch, idx, nQueries, lastLine,
                   qstart, nLLM, sent, session, payload, normalized>>

\* Mutant: the tool turn is appended before the assistant turn of its call.
AppendToolResultSwapped(log, tool_call, tool_call_id, result_content) ==
    log \o <<ToolTurn(tool_call_id, result_content), ToolCallTurn(tool_call)>>

\* Mutant: the latest turn is overwritten instead of appended to.
AppendToolResultOverwrite(log, tool_call, tool_call_id, result_content) ==
    SubSeq(log, 1, Len(log) - 1)
        \o <<ToolCallTurn(tool_call), ToolTurn(tool_call_id, result_content)>>

\* The two appends after a tool call returned.
AppendToolResult(log, tool_call, tool_call_id, result_content) ==
    log \o <<ToolCallTurn(tool_call), ToolTurn(tool_call_id, result_content)>>

\* Mutant: the turns of a call are appended although call_tool raised.
ToolReturnAppendsError ==
    /\ pc = "tool"
    /\ \/ /\ pc' = "except"
          /\ raised' = "ToolError"
          /\ messages' = AppendToolResult(messages, cur.tool_call,
                                          cur.tool_call_id, "Error: tool failed")
          /\ UNCHANGED cur
       \/ \E p \in SessionPayloads :
             /\ cur' = [result |-> p] @@ cur
             /\ messages' = AppendToolResult(messages, cur.tool_call,
                                             cur.tool_call_id, NormalizeResult(p))
             /\ pc' = "followup"
             /\ UNCHANGED raised
    /\ UNCHANGED <<backend, hasKey, selfTools, tools, batch, idx, nQueries, lastLine, qstart,
                   nLLM, sent, called, session, payload, normalized>>

\* session.call_tool returns (or raises); the result is normalized and the
\* assistant turn with the call and the tool turn are appended.
ToolReturn ==
    /\ pc = "tool"
    /\ \/ /\ pc' = "except"
          /\ raised' = "ToolError"
          /\ UNCHANGED <<messages, cur>>
       \/ \E p \in SessionPayloads :
             /\ cur' = [result |-> p] @@ cur
             /\ messages' = AppendToolResult(messages, cur.tool_call,
                                             cur.tool_call_id, NormalizeResult(p))
             /\ pc' = "followup"
             /\ UNCHANGED raised
    /\ UNCHANGED <<backend, hasKey, selfTools, tools, batch, idx, nQueries, lastLine, qstart,
                   nLLM, sent, called, session, payload, normalized>>

\* Mutant: the for loop does not advance to the next tool call.
NextIdxStuck == idx

\* The end of the for body: the next tool call, or the end of the iteration.
NextPc == IF idx < Len(batch) THEN "dispatch" ELSE "done"
NextIdx == IF idx < Len(batch) THEN idx + 1 ELSE idx

\* deepseek: the follow-up call inside the for body, its print and append.
FollowUpDeepSeek ==
    /\ pc = "followup"
    /\ backend = "deepseek"
    /\ \E raw \in ProviderFollowUp(backend) :
          LET follow_up == DeepSeekChat(raw) IN
          /\ sent' = [kind |-> "followup", messages |-> messages, tools |-> tools,
                   ok |-> raw.ok, content |-> raw.content,
                   ntc |-> Len(raw.tool_calls)]
          /\ nLLM' = nLLM + 1
          /\ IF follow_up.content = None
             THEN /\ pc' = "except"
                  /\ raised' = "TypeError"
                  /\ UNCHANGED <<messages, idx>>
             ELSE /\ messages' = Append(messages, AssistantTurn(follow_up.content))
                  /\ pc' = NextPc
                  /\ idx' = NextIdx
                  /\ UNCHANGED raised
    /\ UNCHANGED <<backend, hasKey, selfTools, tools, batch, cur, nQueries, lastLine, qstart, called,
                   session, payload, normalized>>

\* openai: the follow-up call (without tools), its print and append.
FollowUpOpenAI ==
    /\ pc = "followup"
    /\ backend = "openai"
    /\ \E raw \in ProviderFollowUp(backend) :
          /\ sent' = [kind |-> "followup", messages |-> messages,
                   ok |-> raw.ok, content |-> raw.content,
                   ntc |-> Len(raw.tool_calls)]
          /\ nLLM' = nLLM + 1
          /\ IF ~raw.ok \/ raw.content = None
             THEN /\ pc' = "except"
                  /\ raised' = IF ~raw.ok THEN "APIError" ELSE "TypeError"
                  /\ UNCHANGED <<messages, idx>>
             ELSE /\ messages' = Append(messages, AssistantTurn(raw.content))
                  /\ pc' = NextPc
                  /\ idx' = NextIdx
                  /\ UNCHANGED raised
    /\ UNCHANGED <<backend, hasKey, selfTools, tools, batch, cur, nQueries, lastLine, qstart, called,
                   session, payload, normalized>>

\* Mutant: the handler re-raises, so the exception leaves chat_loop.
ExceptReraise ==
    /\ pc = "except"
    /\ pc' = "cleanup"
    /\ UNCHANGED <<backend, hasKey, selfTools, tools, messages, batch, idx, cur, raised,
                   nQueries, lastLine, qstart, nLLM, sent, called, session,
                   payload, normalized>>

\* Mutant: the handler takes the turns of the failed query off the log.
ExceptRollback ==
    /\ pc = "except"
    /\ pc' = "done"
    /\ messages' = SubSeq(messages, 1, qstart - 1)
    /\ UNCHANGED <<backend, hasKey, selfTools, tools, batch, idx, cur, raised,
                   nQueries, lastLine, qstart, nLLM, sent, called, session,
                   payload, normalized>>

\* except Exception: the error is printed and the iteration ends.
Except ==
    /\ pc = "except"
    /\ pc' = "done"
    /\ UNCHANGED <<backend, hasKey, selfTools, tools, messages, batch, idx, cur, raised,
                   nQueries, lastLine, qstart, nLLM, sent, called, session,
                   payload, normalized>>

\* The back edge of `while True`: the iteration's locals are dead.
LoopBack ==
    /\ pc = "done"
    /\ pc' = "input"
    /\ batch' = <<>>
    /\ idx' = 0
    /\ cur' = NoCur
    /\ raised' = ""
    /\ qstart' = 0
    /\ nLLM' = 0
    /\ sent' = NoCall
    /\ called' = <<>>
    /\ UNCHANGED <<backend, hasKey, selfTools, tools, messages, nQueries, lastLine, session,
                   payload, normalized>>

Next ==
    \/ Construct
    \/ ConnectToServer
    \/ ChatLoopStart
    \/ Cleanup
    \/ ReadQuery
    \/ FirstCallDeepSeek
    \/ FirstCallOpenAI
    \/ StartToolCall
    \/ ToolReturn
    \/ FollowUpDeepSeek
    \/ FollowUpOpenAI
    \/ Except
    \/ LoopBack

Spec == Init /\ [][Next]_vars

\* The finally clause runs as soon as control leaves main's try block.
FairSpec == Spec /\ WF_vars(Cleanup)

(***************************************************************************)
(* The normalizer on its own: a payload is drawn, then normalized.         *)
(***************************************************************************)
Texts == {"", "62F", "sunny"}
Items == {TextItem(t) : t \in Texts} \cup {ImageItem}

NormPayloads ==
    {StrPayload(t) : t \in Texts}
    \cup {ItemPayload(it) : it \in Items}
    \cup {ListPayload(l) : l \in UNION {[1..n -> Items] : n \in 0..MaxItems}}
    \cup {DataPayload(TRUE, "null", "None"),
          DataPayload(TRUE, "{\"temp\": 62}", "{'temp': 62}"),
          DataPayload(FALSE, "", "set()")}

Pending == "<pending>"

InitNorm ==
    /\ backend = "deepseek"
    /\ hasKey = TRUE
    /\ pc = "normalize"
    /\ selfTools = <<>>
    /\ tools = <<>>
    /\ messages = <<>>
    /\ batch = <<>>
    /\ idx = 0
    /\ cur = NoCur
    /\ raised = ""
    /\ nQueries = 0
    /\ lastLine = <<>>
    /\ qstart = 0
    /\ nLLM = 0
    /\ sent = NoCall
    /\ called = <<>>
    /\ session = "open"
    /\ payload \in NormPayloads
    /\ normalized = Pending

\* result_content = result.content ... the if/elif/else chain.
Normalize ==
    /\ pc = "normalize"
    /\ normalized' = NormalizeResult(payload)
    /\ pc' = "normalized"
    /\ UNCHANGED <<backend, hasKey, selfTools, tools, messages, batch, idx, cur, raised,
                   nQueries, lastLine, qstart, nLLM, sent, called, session,
                   payload>>

NextNorm == Normalize

SpecNorm == InitNorm /\ [][NextNorm]_vars

(***************************************************************************)
(* The tool catalog on its own: a raw tool list is drawn, then mapped by   *)
(* _make_tools, and mapped once more.                                      *)
(***************************************************************************)
MaxTools == 2

ToolPool ==
    { [name |-> n, description |-> d, inputSchema |-> sch] :
        n \in {"get_weather", "ping"},
        d \in {"weather of a city", None},
        sch \in Schemas }

RawToolLists == UNION { [1..n -> ToolPool] : n \in 0..MaxTools }

InitCatalog ==
    /\ backend = "deepseek"
    /\ hasKey = TRUE
    /\ pc = "make_tools"
    /\ selfTools \in RawToolLists
    /\ tools = <<>>
    /\ messages = <<>>
    /\ batch = <<>>
    /\ idx = 0
    /\ cur = NoCur
    /\ raised = ""
    /\ nQueries = 0
    /\ lastLine = <<>>
    /\ qstart = 0
    /\ nLLM = 0
    /\ sent = NoCall
    /\ called = <<>>
    /\ session = "open"
    /\ payload = StrPayload("")
    /\ normalized = ""

\* tools = self._make_tools()
MakeToolsFirst ==
    /\ pc = "make_tools"
    /\ tools' = MakeTools(selfTools)
    /\ pc' = "made"
    /\ UNCHANGED <<backend, hasKey, selfTools, messages, batch, idx, cur, raised,
                   nQueries, lastLine, qstart, nLLM, sent, called, session,
                   payload, normalized>>

\* self._make_tools() once more on the same self.tools
MakeToolsAgain ==
    /\ pc = "made"
    /\ tools' = MakeTools(selfTools)
    /\ pc' = "made_again"
    /\ UNCHANGED <<backend, hasKey, selfTools, messages, batch, idx, cur, raised,
                   nQueries, lastLine, qstart, nLLM, sent, called, session,
                   payload, normalized>>

NextCatalog == MakeToolsFirst \/ MakeToolsAgain

SpecCatalog == InitCatalog /\ [][NextCatalog]_vars

(***************************************************************************)
(* Reading the log.                                                        *)
(***************************************************************************)
HasToolCalls(t) ==
    /\ t.role = "assistant"
    /\ "tool_calls" \in DOMAIN t
    /\ t.tool_calls # <<>>

RequestIds(t) == {t.tool_calls[k].id : k \in 1..Len(t.tool_calls)}

IsPrefix(a, b) == Len(a) <= Len(b) /\ SubSeq(b, 1, Len(a)) = a

\* Indices of the turns of the current query in log.
QueryTurns(log) == {i \in 1..Len(log) : qstart > 0 /\ i >= qstart}

\* Indices of the tool turns of the current query that answer request id.
ToolTurnsFor(log, id) ==
    {i \in QueryTurns(log) : log[i].role = "tool" /\ log[i].tool_call_id = id}

\* Indices of the assistant turns of the current query that carry tool calls.
ToolCallTurns(log) == {i \in QueryTurns(log) : HasToolCalls(log[i])}

BatchId(k) == batch[k].val.id

(***************************************************************************)
(* C1: every tool turn of the log carries the id of a tool-call request    *)
(* held by an assistant turn earlier in the same log, on both backends     *)
(* and for batches of any size.                                            *)
(***************************************************************************)
C1_ToolTurnAnswersEarlierRequest ==
    \A i \in 1..Len(messages) :
        messages[i].role = "tool" =>
            \E j \in 1..(i - 1) :
                /\ HasToolCalls(messages[j])
                /\ messages[i].tool_call_id \in RequestIds(messages[j])

\* Two tool turns of one batch of two are in the log.
C1_Witness ==
    /\ Len(batch) = 2
    /\ Cardinality({i \in QueryTurns(messages) : messages[i].role = "tool"}) = 2

(***************************************************************************)
(* C2: when the iteration of a query ends, every tool-call request of its  *)
(* first response has exactly one tool turn in the log (a request whose    *)
(* arguments do not parse included).                                       *)
(***************************************************************************)
C2_EveryRequestAnsweredOnce ==
    pc = "done" =>
        \A k \in 1..Len(batch) :
            Cardinality(ToolTurnsFor(messages, BatchId(k))) = 1

(***************************************************************************)
(* C3: the log handed to a follow-up call holds the tool turns of all      *)
(* calls of the batch: no completion call is made between the first and    *)
(* the last tool turn of a batch.                                          *)
(***************************************************************************)
C3_BatchCompleteBeforeFollowUp ==
    sent.kind = "followup" =>
        \A k \in 1..Len(batch) : ToolTurnsFor(sent.messages, BatchId(k)) # {}

(***************************************************************************)
(* C4: one query causes at most two completion calls and appends at most   *)
(* one assistant turn that carries tool calls.                             *)
(***************************************************************************)
C4_AtMostTwoCompletionCalls ==
    /\ nLLM <= 2
    /\ Cardinality(ToolCallTurns(messages)) <= 1

(***************************************************************************)
(* C5: for a first response with one request c answered by the session     *)
(* with text t, the log handed to the follow-up call ends with the user    *)
(* turn of the query, the assistant turn carrying c, and the tool turn     *)
(* with tool_call_id c and content t, in this order.                       *)
(***************************************************************************)
ReturnedText(p) == IF p.kind = "str" THEN p.val ELSE p.val[1].text

C5_FollowUpSeesUserCallResult ==
    (sent.kind = "followup" /\ Len(batch) = 1) =>
        LET log == sent.messages
            n == Len(log)
        IN  /\ n = qstart + 2
            /\ log[n - 2].role = "user"
            /\ log[n - 2].content = "hi"
            /\ log[n - 1].role = "assistant"
            /\ Len(log[n - 1].tool_calls) = 1
            /\ log[n - 1].tool_calls[1].id = BatchId(1)
            /\ log[n - 1].tool_calls[1].function.name = "get_weather"
            /\ log[n].role = "tool"
            /\ log[n].tool_call_id = BatchId(1)
            /\ log[n].content = ReturnedText(cur.result)

\* The follow-up call of a one-call batch in the second query, the session
\* having returned a list with one text item.
C5_Witness ==
    /\ sent.kind = "followup"
    /\ Len(batch) = 1
    /\ nQueries = 2
    /\ cur.result.kind = "list"

(***************************************************************************)
(* C6: every step leaves the old log as a prefix of the new log.           *)
(***************************************************************************)
C6_LogAccretive == [][IsPrefix(messages, messages')]_vars

\* A second query is under way after a first one that ended in the except
\* clause with turns already appended.
C6_Witness ==
    /\ nQueries = 2
    /\ pc = "except"
    /\ Len(messages) >= 5

(***************************************************************************)
(* C7: a failed completion call is not raised to the loop: the loop gets   *)
(* an error text and appends it as an assistant turn without tool calls.   *)
(***************************************************************************)
C7_FailureBecomesAssistantTurn ==
    (sent.kind # "none" /\ ~sent.ok) =>
        /\ raised = ""
        /\ Len(messages) = Len(sent.messages) + 1
        /\ messages[Len(messages)].role = "assistant"
        /\ ~HasToolCalls(messages[Len(messages)])

(***************************************************************************)
(* C8: an exception of an iteration is caught inside the loop, which then  *)
(* reads the next query; chat_loop is left from its loop only by a line    *)
(* that reads 'quit' once trimmed and lowered.                             *)
(***************************************************************************)
QuitLines == { <<"q", "u", "i", "t">>, <<" ", "Q", "u", "I", "T", "\t">> }

C8_RecoverAndContinue ==
    [][ /\ pc = "except" => pc' = "done"
        /\ pc = "done" => pc' = "input"
        /\ (pc' = "cleanup" /\ pc \notin {"connect", "chat_loop", "cleanup"})
              => (pc = "input" /\ lastLine' \in QuitLines) ]_vars

\* The second query is read after a first one whose completion call raised.
C8_Witness ==
    /\ backend = "openai"
    /\ pc = "call"
    /\ nQueries = 2
    /\ Len(messages) = 2

(***************************************************************************)
(* C9: a first response whose content is null does not make the query      *)
(* fail.                                                                   *)
(***************************************************************************)
C9_NullContentHarmless ==
    (sent.kind = "initial" /\ sent.ok /\ sent.content = None) =>
        raised # "TypeError"

(***************************************************************************)
(* C10: the normalizer returns a str as it is, the text of a single item   *)
(* with a text field, the newline-joined texts (in order) of a list whose  *)
(* items all have a text field, and for anything else its JSON text, or    *)
(* its str() text when it has no JSON text.                                *)
(***************************************************************************)
RECURSIVE JoinedFromRight(_)
JoinedFromRight(items) ==
    IF Len(items) = 0 THEN ""
    ELSE IF Len(items) = 1 THEN items[1].text
    ELSE JoinedFromRight(SubSeq(items, 1, Len(items) - 1))
            \o "\n" \o items[Len(items)].text

C10_NormalizerPrecedence ==
    pc = "normalized" =>
        CASE payload.kind = "str" -> normalized = payload.val
          [] payload.kind = "item" /\ payload.val.hasText ->
                normalized = payload.val.text
          [] payload.kind = "list"
                /\ \A i \in 1..Len(payload.val) : payload.val[i].hasText ->
                normalized = JoinedFromRight(payload.val)
          [] OTHER ->
                normalized = IF payload.dumps THEN payload.json ELSE payload.str

\* A list of three text items has been normalized.
C10_Witness ==
    /\ pc = "normalized"
    /\ payload.kind = "list"
    /\ Len(payload.val) = 3
    /\ \A i \in 1..3 : payload.val[i].hasText
    /\ normalized = "62F\nsunny\n62F"

(***************************************************************************)
(* The adapter's tool-call records.                                        *)
(***************************************************************************)
\* The record the loop reads: id, and function with name and arguments.
Canonical(v) ==
    /\ {"id", "function"} \subseteq DOMAIN v
    /\ {"name", "arguments"} \subseteq DOMAIN v.function

\* C11: every tool-call record the deepseek adapter returned, whatever the
\* wire shape of the provider's entry, has the canonical layout (id, name,
\* raw arguments), so the loop reads name, arguments and id from it without
\* failing.
C11_AdapterRecordsCanonical ==
    backend = "deepseek" =>
        /\ \A k \in 1..Len(batch) :
              /\ batch[k].isdict
              /\ Canonical(batch[k].val)
              /\ ReadToolCall(backend, batch[k]).err # "KeyError"
        /\ raised # "KeyError"

(***************************************************************************)
(* Release of the session.                                                 *)
(***************************************************************************)
\* The positions inside main's try block.
InTry ==
    {"connect", "chat_loop", "input", "call", "dispatch", "tool", "followup",
     "except", "done"}

\* C12: every way out of main's try block (the sentinel, a failed connect, an
\* exception of chat_loop) leads to cleanup; cleanup runs, it alone closes an
\* acquired session, a closed session stays closed, and main never ends with
\* the session still open.
C12_SessionReleasedOnEveryExit ==
    /\ [](pc = "exit" => session # "open")
    /\ [][(pc \in InTry /\ pc' \notin InTry) => pc' = "cleanup"]_vars
    /\ [][(session = "open" /\ session' # "open")
            => (pc = "cleanup" /\ pc' = "exit" /\ session' = "closed")]_vars
    /\ [][session = "closed" => session' = "closed"]_vars
    /\ ((pc = "cleanup" /\ session = "open") ~> (pc = "exit" /\ session = "closed"))

C12_Witness ==
    /\ pc = "exit"
    /\ session = "closed"
    /\ raised = "OpenAIError"

(***************************************************************************)
(* Backend configuration.                                                  *)
(***************************************************************************)
\* No usable backend: an unknown backend name, or a known one without its
\* API key.
ConfigInvalid == backend \notin {"deepseek", "openai"} \/ ~hasKey

\* C13: with a missing or invalid backend configuration the session is over
\* before any line is read from the console and before any turn is appended
\* to the log.
C13_ConfigFailureFatalAtStart ==
    ConfigInvalid =>
        /\ lastLine = <<>>
        /\ nQueries = 0
        /\ messages = <<>>
        /\ pc \in {"main", "fatal", "connect", "chat_loop", "cleanup", "exit"}

(***************************************************************************)
(* The tool catalog.                                                       *)
(***************************************************************************)
\* One descriptor per raw tool, in order, name and description copied, and
\* a schema of the set kept passed on unchanged, any other one replaced by
\* the empty-object schema.
CatalogMaps(kept) ==
    pc \in {"made", "made_again"} =>
        /\ Len(tools) = Len(selfTools)
        /\ \A i \in 1..Len(selfTools) :
              /\ tools[i].function.name = selfTools[i].name
              /\ tools[i].function.description = selfTools[i].description
              /\ tools[i].function.parameters =
                    IF selfTools[i].inputSchema \in kept
                    THEN selfTools[i].inputSchema
                    ELSE EmptySchema


\* C14 as stated: one descriptor per raw tool, in order, name and
\* description copied; a missing inputSchema becomes the empty-object schema
\* and every declared schema, the empty dict included, is kept unchanged.
C14_DeclaredSchemaKept == CatalogMaps({x \in Schemas : x.isdict})

\* C14 amended: one descriptor per raw tool, in order, name and description
\* copied; a missing or empty inputSchema becomes the empty-object schema, a
\* non-empty schema is kept unchanged; mapping the same raw list a second
\* time gives the same sequence.
C14_NonEmptySchemaKept ==
    /\ [] CatalogMaps({x \in Schemas : Truthy(x)})
    /\ [][pc = "made" => tools' = tools]_vars

C14_Witness ==
    /\ pc = "made_again"
    /\ Len(selfTools) = 2
    /\ selfTools[1].inputSchema = EmptyDict
    /\ selfTools[2].inputSchema = CitySchema
    /\ tools[1].function.parameters = EmptySchema

(***************************************************************************)
(* Order of dispatch.                                                      *)
(***************************************************************************)
\* C15: the calls of session.call_tool made for a query are those of the
\* response's tool calls, in the order received; a call is started only
\* after the tool turn of every earlier call was appended; the only call in
\* flight is the latest one; and a new query is read only when no call is in
\* flight and the query before it is over.
C15_SequentialDispatch ==
    /\ [] /\ Len(called) <= Len(batch)
          /\ \A j \in 1..Len(called) : called[j] = BatchId(j)
          /\ \A j \in 1..(Len(called) - 1) :
                ToolTurnsFor(messages, called[j]) # {}
          /\ pc = "tool" =>
                /\ Len(called) = idx
                /\ cur.tool_call_id = called[idx]
                /\ ToolTurnsFor(messages, called[idx]) = {}
    /\ [][nQueries' # nQueries => (pc = "input" /\ called = <<>> /\ batch = <<>>)]_vars

C15_Witness ==
    /\ pc = "tool"
    /\ Len(called) = 2
    /\ ToolTurnsFor(messages, called[1]) # {}

(***************************************************************************)
(* Tool calls of a follow-up response.                                     *)
(***************************************************************************)

\* C16: once a follow-up response carrying tool calls has come back, none of
\* its calls is dispatched, none enters the log, the response is appended as
\* an assistant turn with its content only, and the query is over.
C16_FollowUpCallsIgnored ==
    (sent.kind = "followup" /\ sent.ok /\ sent.ntc > 0) =>
        /\ \A j \in 1..Len(called) : called[j] # "call_f"
        /\ \A i \in 1..Len(messages) :
              /\ HasToolCalls(messages[i]) => "call_f" \notin RequestIds(messages[i])
              /\ messages[i].role = "tool" => messages[i].tool_call_id # "call_f"
        /\ Len(messages) > Len(sent.messages)
        /\ messages[Len(sent.messages) + 1] = AssistantTurn(sent.content)
        /\ pc = "done"
        /\ raised = ""

(***************************************************************************)
(* What a completion call is given.                                        *)
(***************************************************************************)
\* C17: the latest completion call, initial or follow-up, on either backend,
\* was given the log as it stood (the whole log up to a turn of the current
\* query) and the tool catalog built from the session's tools at the start
\* of the chat loop.
C17_CallsCarryLogAndCatalog ==
    sent.kind # "none" =>
        /\ IsPrefix(sent.messages, messages)
        /\ Len(sent.messages) >= qstart
        /\ "tools" \in DOMAIN sent
        /\ sent.tools = tools
        /\ sent.tools = MakeTools(selfTools)

(***************************************************************************)
(* Shape of the log a completion call is given.                            *)
(***************************************************************************)
\* C18: in the log given to a completion call, every assistant turn that
\* carries tool calls carries exactly one, and the turn right after it is the
\* tool turn answering that call's id.
C18_CallTurnPairedWithToolTurn ==
    sent.kind # "none" =>
        \A i \in 1..Len(sent.messages) :
            HasToolCalls(sent.messages[i]) =>
                /\ Len(sent.messages[i].tool_calls) = 1
                /\ i < Len(sent.messages)
                /\ sent.messages[i + 1].role = "tool"
                /\ sent.messages[i + 1].tool_call_id = sent.messages[i].tool_calls[1].id

C18_Witness ==
    /\ sent.kind = "initial"
    /\ nQueries = 2
    /\ \E i \in 1..Len(sent.messages), j \in 1..Len(sent.messages) :
          /\ i < j
          /\ HasToolCalls(sent.messages[i])
          /\ HasToolCalls(sent.messages[j])

(***************************************************************************)
(* A tool call that raises.                                                *)
(***************************************************************************)
\* The turns of the log that carry or answer the tool call id.
TurnsOf(id) ==
    { i \in 1..Len(messages) :
        \/ HasToolCalls(messages[i]) /\ id \in RequestIds(messages[i])
        \/ messages[i].role = "tool" /\ messages[i].tool_call_id = id }

\* C19: while a tool call is being read or is in flight the log has no turn
\* for it; when parsing its arguments or call_tool raises for call k the log
\* still has no turn for k, the calls after k are never dispatched and get no
\* turn, no follow-up call is made for k or later, the handler changes
\* nothing, and the loop goes back to the prompt.
C19_RaisingCallLeavesNoTurn ==
    /\ [] /\ pc \in {"dispatch", "tool"} => TurnsOf(BatchId(idx)) = {}
          /\ (pc \in {"except", "done"} /\ raised \in {"JSONDecodeError", "ToolError"}) =>
                /\ \A j \in idx..Len(batch) : TurnsOf(BatchId(j)) = {}
                /\ \A j \in (idx + 1)..Len(batch), c \in 1..Len(called) :
                      called[c] # BatchId(j)
                /\ nLLM = idx
    /\ [][pc = "except" =>
            (pc' = "done" /\ messages' = messages /\ called' = called /\ nLLM' = nLLM)]_vars
    /\ [][pc = "done" =>
            (pc' = "input" /\ messages' = messages /\ called' = <<>>)]_vars

C19_Witness ==
    /\ pc = "done"
    /\ raised = "ToolError"
    /\ idx = 1
    /\ Len(batch) = 2
    /\ messages[Len(messages)] = UserTurn("hi")

(***************************************************************************)
(* The user turn of a query.                                               *)
(***************************************************************************)
\* C20: from the moment a query is read to the end of its iteration, however
\* it ends, its user turn is in the log where it was appended; the first
\* completion call of the query is given the log ending with that user turn.
\* (A query that failed before any assistant turn thus leaves two user turns
\* in a row in the log the next query's call is given: C20_Witness.)
C20_UserTurnStays ==
    /\ qstart > 0 =>
          /\ Len(messages) >= qstart
          /\ messages[qstart] = UserTurn(Str(Strip(lastLine)))
    /\ sent.kind = "initial" =>
          /\ qstart > 0
          /\ sent.messages = SubSeq(messages, 1, qstart)
    /\ pc \in {"call", "dispatch", "tool", "followup", "except", "done"} => qstart > 0

C20_Witness ==
    /\ sent.kind = "initial"
    /\ Len(sent.messages) >= 2
    /\ sent.messages[Len(sent.messages)].role = "user"
    /\ sent.messages[Len(sent.messages) - 1].role = "user"

====
